---- MODULE Spec2Model ----
(***************************************************************************)
(* A model of electrs' header index (src/util/block.rs, HeaderList) and of *)
(* the xpub gap-limit scan (src/multi.rs, handle_xpub_inner).              *)
(*                                                                         *)
(* Hashes are naturals; 0 is Sha256dHash::default(), the null hash.  A     *)
(* block header is reduced to the two things the code reads from it: its   *)
(* prev_blockhash and the rest of its content (nonce).                     *)
(***************************************************************************)
EXTENDS Integers, Sequences, FiniteSets, TLC

(***************************************************************************)
(* Bounds of the model.                                                    *)
(***************************************************************************)
\* Headers whose hash is at most MaxHash exist.
MaxHash == 5
\* apply is called with at most MaxBranch entries.
MaxBranch == 2
\* The heights an entry handed to apply may carry are 0..MaxHeight.
MaxHeight == 2
\* The readers of the list.
NumReaders == 2
\* The scan's activity oracles mark indices up to Spread away from the last
\* index of the first page.
Spread == 1
\* The scan derives pages 1..MaxPage.
MaxPage == 2
MaxPieces == 3
MaxAddrs == 3

VARIABLES
    headers,   \* HeaderList.headers: Vec<HeaderEntry>
    heights,   \* HeaderList.heights: HashMap<Sha256dHash, usize>
    tip,       \* HeaderList.tip
    call,      \* the call that has just completed (history), or op = "none"
    writer,    \* where the writer is inside apply, when apply is run by steps
    readers,   \* what each reader is doing
    obs,       \* the read that has just been made (history), or op = "none"
    scan       \* the locals of handle_xpub_inner and its activity oracle

vars == <<headers, heights, tip, call, writer, readers, obs, scan>>

NullHash == 0

(***************************************************************************)
(* header.bitcoin_hash(): a collision-free function of the header's        *)
(* content, prev_blockhash included (Cantor's pairing, shifted by one so   *)
(* that no header hashes to the null hash).  A header's hash is larger     *)
(* than its prev_blockhash, so no header is its own ancestor.              *)
(***************************************************************************)
bitcoin_hash(header) ==
    LET s == header.prev_blockhash + header.nonce
    IN  ((s * (s + 1)) \div 2) + header.nonce + 1

BlockHeader ==
    { hd \in [prev_blockhash : 0..MaxHash, nonce : 0..MaxHash] :
        bitcoin_hash(hd) <= MaxHash }

\* HeaderEntry { height, hash, header }: the fields are private and order is
\* the only constructor, so hash is always the hash of header.
HeaderEntry(height, header) ==
    [height |-> height, hash |-> bitcoin_hash(header), header |-> header]

HeaderEntries == { HeaderEntry(k, hd) : k \in 0..MaxHeight, hd \in BlockHeader }

\* A HashMap as a function on its key set.
EmptyMap == [k \in {} |-> 0]

insert(map, key, value) ==
    [k \in (DOMAIN map) \cup {key} |-> IF k = key THEN value ELSE map[k]]

HeaderList(hs, hts, t) == [headers |-> hs, heights |-> hts, tip |-> t]

empty == HeaderList(<<>>, EmptyMap, NullHash)

\* Mutant: the entry at `at` is kept too.
split_off_inclusive(vec, at) ==
    SubSeq(vec, 1, IF at + 1 <= Len(vec) THEN at + 1 ELSE Len(vec))

\* Vec::split_off(at) leaves [0, at) in the vector.
split_off(vec, at) == SubSeq(vec, 1, at)

\* Option<T>
None == [some |-> FALSE]
Some(v) == [some |-> TRUE, value |-> v]

\* self.headers.get(height), heights counted from 0.
get(vec, height) ==
    IF height >= 0 /\ height < Len(vec) THEN Some(vec[height + 1]) ELSE None

\* Mutant: the stored entry's hash is not compared with the hash asked for.
header_by_blockhash_unvalidated(self, blockhash) ==
    IF blockhash \notin DOMAIN self.heights THEN None
    ELSE get(self.headers, self.heights[blockhash])

header_by_blockhash(self, blockhash) ==
    IF blockhash \notin DOMAIN self.heights THEN None
    ELSE LET header == get(self.headers, self.heights[blockhash])
         IN  IF ~header.some THEN None
             ELSE IF blockhash = header.value.hash THEN header ELSE None

\* The assertion of header_by_height: entry.height() == height.
header_by_height_asserts(self, height) ==
    LET entry == get(self.headers, height)
    IN  entry.some => entry.value.height = height

header_by_height(self, height) == get(self.headers, height)

\* The assertion of tip(): self.tip is the last header's hash, or the default.
tip_asserts(self) ==
    self.tip = (IF Len(self.headers) > 0
                THEN self.headers[Len(self.headers)].hash
                ELSE NullHash)

len(self) == Len(self.headers)

(***************************************************************************)
(* apply.  A failed assert_eq!, an index out of range or a split_off past  *)
(* the end is a panic; the value is the list as the panic leaves it.       *)
(***************************************************************************)
Outcome(self, result) == [self |-> self, result |-> result]

\* Mutant: the hash chaining of the entries is not checked.
apply_linked_heights(new_headers) ==
    \A i \in 2..Len(new_headers) :
        new_headers[i - 1].height + 1 = new_headers[i].height

\* Lines 165-171: the entries are contiguous in height and linked by hash.
apply_linked(new_headers) ==
    \A i \in 2..Len(new_headers) :
        /\ new_headers[i - 1].height + 1 = new_headers[i].height
        /\ new_headers[i - 1].hash = new_headers[i].header.prev_blockhash

\* Mutant: the new entry is put in front of the vector.
apply_push_front(self, new_header) ==
    HeaderList(<<new_header>> \o self.headers,
               insert(self.heights, new_header.hash, new_header.height),
               new_header.hash)

\* Mutant: the tip is not moved.
apply_push_stale_tip(self, new_header) ==
    HeaderList(Append(self.headers, new_header),
               insert(self.heights, new_header.hash, new_header.height),
               self.tip)

\* Mutant: the map is not updated.
apply_push_no_insert(self, new_header) ==
    HeaderList(Append(self.headers, new_header), self.heights, new_header.hash)

\* Lines 194-196: one iteration of the loop, past its assertion.
apply_push_one(self, new_header) ==
    HeaderList(Append(self.headers, new_header),
               insert(self.heights, new_header.hash, new_header.height),
               new_header.hash)

\* Lines 191-197: the loop that appends, one entry per iteration.
RECURSIVE apply_push(_, _)
apply_push(self, new_headers) ==
    IF new_headers = <<>> THEN Outcome(self, "ok")
    ELSE LET new_header == Head(new_headers)
             height == new_header.height
         IN  IF height # Len(self.headers) THEN Outcome(self, "panic")
             ELSE apply_push(apply_push_one(self, new_header),
                             Tail(new_headers))

\* Mutant: the first entry is checked against the tip.
expected_prev_blockhash_tip(self, height) ==
    IF Len(self.headers) > 0 THEN self.headers[Len(self.headers)].hash
    ELSE NullHash

\* Lines 175-179: the hash the first entry must name as its predecessor
\* (height - 1 is in range when this is evaluated).
expected_prev_blockhash(self, height) ==
    IF height > 0 THEN self.headers[height].hash ELSE NullHash

\* Mutant: nothing is discarded.
apply_truncate_none(self, new_height) == self

\* Line 190: keep [0..new_height) entries.
apply_truncate(self, new_height) ==
    HeaderList(split_off(self.headers, new_height), self.heights, self.tip)

\* Lines 165-184, and the bound of split_off at line 190: "panic" when an
\* assertion or an index fails, "return" for no entries, else "go".  Nothing
\* is written before line 190.
apply_validate(self, new_headers) ==
    IF ~apply_linked(new_headers) THEN "panic"
    ELSE IF new_headers = <<>> THEN "return"
    ELSE LET entry == Head(new_headers)
             height == entry.height
         IN  IF height > 0 /\ height - 1 >= Len(self.headers)
             THEN "panic"   \* self.headers[height - 1]
             ELSE IF entry.header.prev_blockhash
                        # expected_prev_blockhash(self, height)
             THEN "panic"
             ELSE IF height > Len(self.headers)
             THEN "panic"   \* split_off past the end
             ELSE "go"

apply(self, new_headers) ==
    LET valid == apply_validate(self, new_headers)
    IN  IF valid = "panic" THEN Outcome(self, "panic")
        ELSE IF valid = "return" THEN Outcome(self, "ok")
        ELSE apply_push(apply_truncate(self, Head(new_headers).height),
                        new_headers)

(***************************************************************************)
(* order: the entries of a run of headers, by the index as it stands.      *)
(***************************************************************************)
Ordered(value, result) == [value |-> value, result |-> result]

\* Lines 134-139: each header names the one before it.
order_linked(new_headers) ==
    \A i \in 2..Len(new_headers) :
        new_headers[i].prev_blockhash = bitcoin_hash(new_headers[i - 1])

\* Mutant: the heights start one above new_height.
order_entries_above(new_height, new_headers) ==
    [i \in 1..Len(new_headers) |->
        HeaderEntry(new_height + i, new_headers[i])]

\* Mutant: every entry is given the first height.
order_entries_flat(new_height, new_headers) ==
    [i \in 1..Len(new_headers) |-> HeaderEntry(new_height, new_headers[i])]

\* Lines 153-160: sequential heights from new_height.
order_entries(new_height, new_headers) ==
    [i \in 1..Len(new_headers) |->
        HeaderEntry(new_height + (i - 1), new_headers[i])]

order(self, new_headers) ==
    IF ~order_linked(new_headers) THEN Ordered(<<>>, "panic")
    ELSE IF new_headers = <<>> THEN Ordered(<<>>, "ok")
    ELSE LET prev_blockhash == Head(new_headers).prev_blockhash
         IN  IF prev_blockhash = NullHash
             THEN Ordered(order_entries(0, new_headers), "ok")
             ELSE LET found == header_by_blockhash(self, prev_blockhash)
                  IN  IF ~found.some THEN Ordered(<<>>, "panic")
                      ELSE Ordered(order_entries(found.value.height + 1,
                                                 new_headers), "ok")

(***************************************************************************)
(* new: the chain that ends at tip_hash, out of a map of headers by hash.  *)
(***************************************************************************)
\* HashMap::remove(key): the map without the key.
remove(map, key) == [k \in (DOMAIN map) \ {key} |-> map[k]]

\* Mutant: the chain is left in the order of the walk, tip first.
reverse_none(vec) == vec

\* Vec::reverse (line 110).
reverse(vec) == [i \in 1..Len(vec) |-> vec[Len(vec) + 1 - i]]

\* Lines 102-109: walk back from blockhash to the null hash, taking each
\* header out of the map; a hash the map lacks is a panic (expect).
RECURSIVE new_walk(_, _, _)
new_walk(headers_map, blockhash, headers_chain) ==
    IF blockhash = NullHash THEN Ordered(headers_chain, "ok")
    ELSE IF blockhash \notin DOMAIN headers_map THEN Ordered(<<>>, "panic")
    ELSE LET header == headers_map[blockhash]
         IN  new_walk(remove(headers_map, blockhash),
                      header.prev_blockhash,
                      Append(headers_chain, header))

\* Mutant: a walk that met a missing hash is taken as a walk of no headers.
new_unchecked(headers_map, tip_hash) ==
    LET walked == new_walk(headers_map, tip_hash, <<>>)
    IN  LET ordered == order(empty, reverse(walked.value))
        IN  IF ordered.result = "panic" THEN Outcome(empty, "panic")
            ELSE apply(empty, ordered.value)

\* Lines 88-121: walk, reverse, then apply to the empty list what order makes
\* of the chain.
new(headers_map, tip_hash) ==
    LET walked == new_walk(headers_map, tip_hash, <<>>)
    IN  IF walked.result = "panic" THEN Outcome(empty, "panic")
        ELSE LET ordered == order(empty, reverse(walked.value))
             IN  IF ordered.result = "panic" THEN Outcome(empty, "panic")
                 ELSE apply(empty, ordered.value)

(***************************************************************************)
(* The state machine: one writer that builds the list with new and calls   *)
(* apply with any entries.                                                 *)
(***************************************************************************)
Self == HeaderList(headers, heights, tip)

NoCall == [op |-> "none", input |-> <<>>, result |-> "ok", pre |-> empty]

\* The map of a set of headers, each under its own hash.
MapOf(hds) ==
    [k \in { bitcoin_hash(hd) : hd \in hds } |->
        CHOOSE hd \in hds : bitcoin_hash(hd) = k]

HeaderMaps == { MapOf(hds) : hds \in SUBSET BlockHeader }

BranchInputs == UNION { [1..n -> HeaderEntries] : n \in 0..MaxBranch }

\* The runs of headers the writer hands to order.
Runs == UNION { [1..n -> BlockHeader] : n \in 0..MaxBranch }

\* The writer outside apply.
WriterIdle == [pc |-> "idle", rest |-> <<>>, pre |-> empty, post |-> empty]

Readers == 1..NumReaders

NoObs == [op |-> "none"]

\* No scan is running.
NoScan == [pc |-> "none"]

\* HeaderList::empty(), with nobody at work on it.
ListInit ==
    /\ headers = empty.headers
    /\ heights = empty.heights
    /\ tip = empty.tip
    /\ call = NoCall
    /\ writer = WriterIdle
    /\ readers = [r \in Readers |-> "idle"]
    /\ obs = NoObs

Init ==
    /\ ListInit
    /\ scan = NoScan

Apply(new_headers) ==
    /\ LET out == apply(Self, new_headers)
       IN  /\ headers' = out.self.headers
           /\ heights' = out.self.heights
           /\ tip' = out.self.tip
           /\ call' = [op |-> "apply", input |-> new_headers,
                       result |-> out.result, pre |-> Self]
    /\ UNCHANGED <<writer, readers, obs, scan>>

\* The writer replaces its list by new(headers_map, tip_hash); a panic in new
\* leaves it with the list it had.
New(headers_map, tip_hash) ==
    /\ LET out == new(headers_map, tip_hash)
           made == IF out.result = "ok" THEN out.self ELSE Self
       IN  /\ headers' = made.headers
           /\ heights' = made.heights
           /\ tip' = made.tip
           /\ call' = [op |-> "new",
                       input |-> [headers_map |-> headers_map,
                                  tip_hash |-> tip_hash],
                       result |-> out.result, pre |-> Self]
    /\ UNCHANGED <<writer, readers, obs, scan>>

\* order takes &self: the list is read and left as it is.
Order(new_headers) ==
    /\ LET out == order(Self, new_headers)
       IN  call' = [op |-> "order", input |-> new_headers,
                    result |-> out.result, pre |-> Self, value |-> out.value]
    /\ UNCHANGED <<headers, heights, tip, writer, readers, obs, scan>>

\* The call returns to the writer, which goes on to its next call.
Return ==
    /\ call.op # "none"
    /\ call' = NoCall
    /\ UNCHANGED <<headers, heights, tip, writer, readers, obs, scan>>

\* The writer is between calls.
Idle == call.op = "none"

Next ==
    \/ Idle /\ \E new_headers \in BranchInputs : Apply(new_headers)
    \/ Idle /\ \E headers_map \in HeaderMaps, tip_hash \in 0..MaxHash :
                New(headers_map, tip_hash)
    \/ Idle /\ \E new_headers \in Runs : Order(new_headers)
    \/ Return

Spec == Init /\ [][Next]_vars

(***************************************************************************)
(* The writer's apply run statement by statement, beside readers.  apply   *)
(* takes &mut self and the four lookups take &self: a reader gets its      *)
(* shared borrow only while no exclusive borrow is out.                    *)
(***************************************************************************)
\* Mutant: a reader gets at the list whatever the writer is doing.
borrow_shared_unchecked(w) == TRUE

\* &self (lines 200, 210, 221, 232) against the &mut self of line 163.
borrow_shared(w) == w.pc = "idle"

\* What a lookup returns, and whether its assertion fails on the way.
Got(value, panic) == [value |-> value, panic |-> panic]

read(self, op, arg) ==
    CASE op = "len" -> Got(len(self), FALSE)
      [] op = "tip" -> Got(self.tip, ~tip_asserts(self))
      [] op = "header_by_height" ->
            Got(header_by_height(self, arg),
                ~header_by_height_asserts(self, arg))
      [] op = "header_by_blockhash" ->
            Got(header_by_blockhash(self, arg), FALSE)

Reads ==
    {[op |-> "len", arg |-> 0], [op |-> "tip", arg |-> 0]}
    \cup {[op |-> "header_by_height", arg |-> k] : k \in 0..MaxHeight}
    \cup {[op |-> "header_by_blockhash", arg |-> h] : h \in 0..MaxHash}

\* &mut self (line 163): no shared borrow is out.  The lookups return
\* references into the list, so a reader holds its borrow while it uses
\* what it was given.
borrow_mut(rs) == \A r \in DOMAIN rs : rs[r] # "reading"

\* Lines 163-189, entered as the writer does, with headers.order(run): the
\* writer validates; a panic (in order or in apply) or an empty input ends
\* the call with nothing written.
ApplyBegin(run) ==
    /\ writer.pc = "idle"
    /\ borrow_mut(readers)
    /\ LET ordered == order(Self, run)
       IN  writer' = IF /\ ordered.result = "ok"
                        /\ apply_validate(Self, ordered.value) = "go"
                     THEN [pc |-> "truncate", rest |-> ordered.value,
                           pre |-> Self,
                           post |-> apply(Self, ordered.value).self]
                     ELSE WriterIdle
    /\ UNCHANGED <<headers, heights, tip, call, readers, obs, scan>>

\* Line 190.
ApplyTruncate ==
    /\ writer.pc = "truncate"
    /\ LET cut == apply_truncate(Self, Head(writer.rest).height)
       IN  /\ headers' = cut.headers
           /\ heights' = cut.heights
           /\ tip' = cut.tip
    /\ writer' = [writer EXCEPT !.pc = "push"]
    /\ UNCHANGED <<call, readers, obs, scan>>

\* Lines 191-197: one iteration of the loop; after the last one apply
\* returns.  A failed assertion unwinds out of apply.
ApplyPush ==
    /\ writer.pc = "push"
    /\ LET new_header == Head(writer.rest)
       IN  IF new_header.height # Len(headers)
           THEN /\ writer' = WriterIdle
                /\ UNCHANGED <<headers, heights, tip>>
           ELSE LET pushed == apply_push_one(Self, new_header)
                IN  /\ headers' = pushed.headers
                    /\ heights' = pushed.heights
                    /\ tip' = pushed.tip
                    /\ writer' = IF Tail(writer.rest) = <<>> THEN WriterIdle
                                 ELSE [writer EXCEPT !.rest = Tail(writer.rest)]
    /\ UNCHANGED <<call, readers, obs, scan>>

\* A reader comes for the list; it has to wait when the writer is in apply.
ReadRequest(r) ==
    /\ readers[r] = "idle"
    /\ readers' = [readers EXCEPT
                     ![r] = IF borrow_shared(writer) THEN "ready" ELSE "waited"]
    /\ UNCHANGED <<headers, heights, tip, call, writer, obs, scan>>

\* A reader makes one lookup on the list as it stands.  before and after
\* are what the same lookup gives on the list as it was before the apply in
\* progress and as it will be after it (the list itself when none is).
Read(r, rd) ==
    /\ readers[r] \in {"ready", "waited"}
    /\ borrow_shared(writer)
    /\ obs' = [op |-> rd.op, arg |-> rd.arg, reader |-> r,
                waited |-> readers[r] = "waited",
                got |-> read(Self, rd.op, rd.arg),
                before |-> read(IF writer.pc = "idle" THEN Self ELSE writer.pre,
                                rd.op, rd.arg),
                after |-> read(IF writer.pc = "idle" THEN Self ELSE writer.post,
                               rd.op, rd.arg)]
    /\ readers' = [readers EXCEPT ![r] = "reading"]
    /\ UNCHANGED <<headers, heights, tip, call, writer, scan>>

\* The reader is done with what it was given and lets go of the list.
ReadDone(r) ==
    /\ readers[r] = "reading"
    /\ readers' = [readers EXCEPT ![r] = "idle"]
    /\ obs' = IF obs.op # "none" /\ obs.reader = r THEN NoObs ELSE obs
    /\ UNCHANGED <<headers, heights, tip, call, writer, scan>>

ConcNext ==
    \/ writer.pc = "idle" /\ \E run \in Runs : ApplyBegin(run)
    \/ ApplyTruncate
    \/ ApplyPush
    \/ \E r \in Readers : ReadRequest(r)
    \/ \E r \in Readers, rd \in Reads : Read(r, rd)
    \/ \E r \in Readers : ReadDone(r)

ConcSpec == Init /\ [][ConcNext]_vars

DERIVE_SIZE == 100

\* The 20 of line 178.
GapLimit == 20

\* Mutant: the range takes in its upper end.
derive_batch_inclusive(page) ==
    LET from == (page - 1) * DERIVE_SIZE
        to == (page * DERIVE_SIZE) - 1
    IN  [i \in 1..(to - from + 1) |-> from + (i - 1)]

\* Lines 45-52: the indices of (from..to), a range that leaves `to` out.
derive_batch(page) ==
    LET from == (page - 1) * DERIVE_SIZE
        to == (page * DERIVE_SIZE) - 1
    IN  [i \in 1..(to - from) |-> from + (i - 1)]

\* The script hash of an address.
scripthash(addr) == <<"scripthash", addr>>

\* Lines 70-71: the hash of a derived address (to_scripthash, unwrapped).
derive_by_index(i) == <<i, scripthash(i)>>

\* The literal addresses of a request: two that are addresses, two that
\* are not.
WellFormed == {"1Axx", "1Bxx"}

Malformed == {"1A", "zz"}

\* to_scripthash (line 124): Ok(hash) of an address, Err of anything else.
to_scripthash(addr) ==
    IF addr \in WellFormed THEN [ok |-> TRUE, hash |-> scripthash(addr)]
    ELSE [ok |-> FALSE]

\* Mutant: a failed conversion goes on as if it had given a hash.
filter_map_unfiltered(addr, result) ==
    Some(<<addr, IF result.ok THEN result.hash ELSE scripthash(addr)>>)

\* Lines 127-130: the pairs whose conversion gave Ok go on, the others are
\* dropped.
filter_map(addr, result) ==
    IF result.ok THEN Some(<<addr, result.hash>>) ELSE None

\* query.stats(hash): both stats are empty unless the address is in use.
stats_is_empty(used, i) == i \notin used

ScriptStats(tx_count) == [tx_count |-> tx_count]

\* query.stats(hash): the chain stats and the mempool stats of the hash.
query_stats(used, hash) ==
    <<ScriptStats(IF stats_is_empty(used, hash[2]) THEN 0 ELSE 1),
      ScriptStats(0)>>

\* query.utxo(hash), each output made a UtxoValue (lines 238-242).
query_utxo(unspent, hash) ==
    IF hash[2] \in unspent THEN <<[txid |-> hash[2], vout |-> 0]>> ELSE <<>>

\* query.chain().history(hash, ..), prepared (lines 202-207, 216).
chain_txs(used, hash) ==
    IF hash[2] \in used THEN <<[txid |-> hash[2]]>> ELSE <<>>

\* query.mempool().history(hash, ..), prepared (lines 209-214, 217).
mempool_txs(used, hash) == <<>>

\* AddressInfo::new (block.rs, lines 336-350).
AddressInfo_new(address, stats, chain, mempool) ==
    [address |-> address, chain_stats |-> Some(stats[1]),
     mempool_stats |-> Some(stats[2]), utxo |-> <<>>,
     chain_txs |-> chain, mempool_txs |-> mempool]

\* Mutant: the stats are left out.
new_stats_absent(address, stats) ==
    [address |-> address, utxo |-> <<>>, chain_stats |-> None,
     mempool_stats |-> None, chain_txs |-> <<>>, mempool_txs |-> <<>>]

\* AddressInfo::new_stats (block.rs, lines 352-361).
new_stats(address, stats) ==
    [address |-> address, utxo |-> <<>>, chain_stats |-> Some(stats[1]),
     mempool_stats |-> Some(stats[2]), chain_txs |-> <<>>,
     mempool_txs |-> <<>>]

\* AddressInfo::new_utxo (block.rs, lines 363-372).
new_utxo(address, utxos) ==
    [address |-> address, utxo |-> utxos, chain_stats |-> None,
     mempool_stats |-> None, chain_txs |-> <<>>, mempool_txs |-> <<>>]

\* Lines 195-219.
get_address_info(addr, hash, stats, used, unspent) ==
    AddressInfo_new(addr, stats, chain_txs(used, hash),
                    mempool_txs(used, hash))

\* Lines 221-229.
get_address_stats(addr, hash, stats, used, unspent) == new_stats(addr, stats)

\* Lines 231-245.
get_address_utxo(addr, hash, stats, used, unspent) ==
    new_utxo(addr, query_utxo(unspent, hash))

\* The three handlers of each path pass one of these callbacks each
\* (lines 74-112).
Modes == {"info", "stats", "utxo"}

callback(mode, addr, hash, stats, used, unspent) ==
    CASE mode = "info" -> get_address_info(addr, hash, stats, used, unspent)
      [] mode = "stats" -> get_address_stats(addr, hash, stats, used, unspent)
      [] mode = "utxo" -> get_address_utxo(addr, hash, stats, used, unspent)

\* Activity oracles: a ladder of used indices that never leaves GapLimit
\* empty ones in a row below the first page's last indices, or none, with
\* any of a few marked indices.
Ladder ==
    { i \in 0..(DERIVE_SIZE - 1 - GapLimit) : i % GapLimit = GapLimit - 1 }

Marks ==
    {0, 5, 50} \cup ((DERIVE_SIZE - 1 - Spread)..(DERIVE_SIZE - 1 + Spread))

\* The indices of the pages that a scan may derive.
Horizon == 0..(DERIVE_SIZE * MaxPage - 1)

\* The ladder through all pages: every GapLimit-th index is in use.
FullLadder == { i \in Horizon : i % GapLimit = GapLimit - 1 }

Oracles ==
    { L \cup X : L \in {{}, Ladder}, X \in SUBSET Marks }
      \cup {FullLadder}

\* The unspent outputs that go with the addresses in use.
Unspents(used) == {{}, used}

\* The literal batches of a request.
Batches == UNION { [1..n -> WellFormed \cup Malformed] : n \in 0..MaxAddrs }

\* A request at its start; lines 146-152 are the locals of the scan.
Request(path, mode, used, unspent, addresses) ==
    [path |-> path, mode |-> mode, used |-> used, unspent |-> unspent,
     input |-> addresses, addresses |-> addresses,
     pc |-> IF path = "xpub" THEN "derive" ELSE "collect",
     page |-> 1, empty_count |-> 0, done |-> FALSE, result |-> <<>>,
     queried |-> <<>>, called |-> <<>>]

ScanStart(mode, used, unspent) == Request("xpub", mode, used, unspent, <<>>)

MultiStart(mode, used, unspent, addresses) ==
    Request("multi", mode, used, unspent, addresses)

ScanInit ==
    /\ ListInit
    /\ \E mode \in Modes :
         \/ \E used \in Oracles : \E unspent \in Unspents(used) :
              scan = ScanStart(mode, used, unspent)
         \/ \E used \in SUBSET WellFormed : \E unspent \in Unspents(used) :
              \E addresses \in Batches :
                scan = MultiStart(mode, used, unspent, addresses)

\* Lines 155-156.
DeriveBatch ==
    /\ scan.pc = "derive"
    /\ scan.page <= MaxPage
    /\ scan' = [scan EXCEPT !.pc = "for",
                            !.addresses = derive_batch(scan.page)]
    /\ UNCHANGED <<headers, heights, tip, call, writer, readers, obs>>

\* Lines 161-169: the counter after an address.
next_empty_count(is_empty, empty_count) ==
    IF is_empty THEN empty_count + 1 ELSE 0

\* Mutant: the scan goes on until the counter is past the limit.
should_stop_late(is_empty, empty_count) ==
    is_empty /\ empty_count > GapLimit

\* Line 178.
should_stop(is_empty, empty_count) == is_empty /\ empty_count >= GapLimit

\* Lines 158-183: the loop's body on the next address of the batch; the
\* loop ends after the batch's last address, or at the break.
Visit ==
    /\ scan.pc = "for"
    /\ IF scan.addresses = <<>>
       THEN scan' = [scan EXCEPT !.pc = "page"]
       ELSE LET addr == derive_by_index(Head(scan.addresses))[1]
                hash == derive_by_index(Head(scan.addresses))[2]
                stats == query_stats(scan.used, hash)
                is_empty == stats_is_empty(scan.used, addr)
                empty_count == next_empty_count(is_empty, scan.empty_count)
                data == callback(scan.mode, addr, hash, stats, scan.used,
                                 scan.unspent)
                stop == should_stop(is_empty, empty_count)
            IN  scan' = [scan EXCEPT
                           !.addresses = Tail(scan.addresses),
                           !.queried = Append(scan.queried, addr),
                           !.empty_count = empty_count,
                           !.called = IF is_empty THEN scan.called
                                      ELSE Append(scan.called, addr),
                           !.result = IF is_empty THEN scan.result
                                      ELSE Append(scan.result, data),
                           !.done = stop,
                           !.pc = IF stop \/ Tail(scan.addresses) = <<>>
                                  THEN "page" ELSE "for"]
    /\ UNCHANGED <<headers, heights, tip, call, writer, readers, obs>>

\* Lines 185-192.
NextPage ==
    /\ scan.pc = "page"
    /\ scan' = [scan EXCEPT !.page = scan.page + 1,
                            !.pc = IF scan.done THEN "returned" ELSE "derive"]
    /\ UNCHANGED <<headers, heights, tip, call, writer, readers, obs>>

\* Lines 120-136: collect draws the next address through the chain of
\* adapters: converted, dropped or kept, and if kept queried and handed to
\* the callback; after the last address the vector is returned.
Collect ==
    /\ scan.pc = "collect"
    /\ IF scan.addresses = <<>>
       THEN scan' = [scan EXCEPT !.pc = "returned"]
       ELSE LET addr == Head(scan.addresses)
                kept == filter_map(addr, to_scripthash(addr))
            IN  IF kept.some
                THEN LET hash == kept.value[2]
                         stats == query_stats(scan.used, hash)
                         data == callback(scan.mode, kept.value[1], hash,
                                          stats, scan.used, scan.unspent)
                     IN  scan' = [scan EXCEPT
                                    !.addresses = Tail(scan.addresses),
                                    !.queried = Append(scan.queried, hash[2]),
                                    !.called = Append(scan.called,
                                                      kept.value[1]),
                                    !.result = Append(scan.result, data)]
                ELSE scan' = [scan EXCEPT !.addresses = Tail(scan.addresses)]
    /\ UNCHANGED <<headers, heights, tip, call, writer, readers, obs>>

ScanNext == DeriveBatch \/ Visit \/ NextPage \/ Collect

ScanSpec == ScanInit /\ [][ScanNext]_vars

\* The scan has returned its result.
Returned == scan.pc = "returned" /\ scan.path = "xpub"

\* The addresses of a list of AddressInfo.
AddressesOf(infos) == [i \in 1..Len(infos) |-> infos[i].address]

\* i completes a run of GapLimit consecutive empty indices.
CompletesGap(used, i) ==
    /\ i >= GapLimit - 1
    /\ \A j \in (i - (GapLimit - 1))..i : j \notin used

\* The first index that completes such a run (the oracles are finite).
Boundary(used) ==
    CHOOSE i \in 0..(DERIVE_SIZE * (MaxPage + 1)) :
        /\ CompletesGap(used, i)
        /\ \A j \in 0..(i - 1) : ~CompletesGap(used, j)

\* A finite set of naturals in ascending order.
RECURSIVE Ascending(_)
Ascending(S) ==
    IF S = {} THEN <<>>
    ELSE LET least == CHOOSE x \in S : \A y \in S : x <= y
         IN  <<least>> \o Ascending(S \ {least})

\* C4 (gap-limit scan result), as claimed: the scan returns one result for
\* every used index before the first index that completes a run of 20
\* consecutive empty indices, in ascending order, and nothing else.
C4_GapLimitResult ==
    Returned =>
        AddressesOf(scan.result)
          = Ascending({ i \in scan.used : i < Boundary(scan.used) })

\* C4's example, as claimed: with the indices 0, 5 and 50 in use the scan
\* returns exactly 3 results.
C4_Example ==
    (Returned /\ scan.used = {0, 5, 50}) => Len(scan.result) = 3

(***************************************************************************)
(* Properties of apply.                                                    *)
(***************************************************************************)
\* The call that has just completed is an apply.
Applied == call.op = "apply"

\* The hashes of a sequence of entries.
HashesOf(hs) == { hs[i].hash : i \in 1..Len(hs) }

\* The hash stored at height - 1 in the list, the null hash below height 0;
\* -1 (no hash) when the list has no such height.
StoredBelow(self, height) ==
    IF height = 0 THEN NullHash
    ELSE IF height - 1 < Len(self.headers) THEN self.headers[height].hash
    ELSE -1

\* A branch is internally contiguous: heights step by one and each entry
\* names the hash of the one before it.
Contiguous(branch) ==
    \A i \in 1..(Len(branch) - 1) :
        /\ branch[i + 1].height = branch[i].height + 1
        /\ branch[i + 1].header.prev_blockhash = branch[i].hash

\* A non-empty contiguous branch that attaches to the list at a height K
\* below the list's length.
AttachesBelowTip(self, branch) ==
    /\ branch # <<>>
    /\ Contiguous(branch)
    /\ branch[1].height < Len(self.headers)
    /\ branch[1].header.prev_blockhash = StoredBelow(self, branch[1].height)

\* C1 (reorg): applying a contiguous branch that attaches at height K < N
\* succeeds and leaves the old entries at heights [0, K) followed by the
\* branch; the length is K + len(branch) and the tip is the hash of the
\* branch's last entry.
C1_Reorg ==
    (Applied /\ AttachesBelowTip(call.pre, call.input)) =>
        LET K == call.input[1].height
        IN  /\ call.result = "ok"
            /\ headers = SubSeq(call.pre.headers, 1, K) \o call.input
            /\ Len(headers) = K + Len(call.input)
            /\ tip = call.input[Len(call.input)].hash

\* A reorganization that discarded two entries for a different one.
C1_Witness ==
    /\ Applied
    /\ AttachesBelowTip(call.pre, call.input)
    /\ Len(call.pre.headers) >= call.input[1].height + 2
    /\ call.input[1].hash # call.pre.headers[call.input[1].height + 1].hash
    /\ call.result = "ok"

\* The entries handed to apply are invalid: not contiguous, or the first
\* does not name the hash stored below it, or it starts past the end.
Invalid(self, branch) ==
    \/ ~Contiguous(branch)
    \/ /\ branch # <<>>
       /\ \/ branch[1].header.prev_blockhash
                # StoredBelow(self, branch[1].height)
          \/ branch[1].height > Len(self.headers)

\* C2 (reject and preserve): apply of invalid entries fails (the code's
\* failure is a panic) and leaves headers, the map and the tip as they were.
C2_RejectPreserve ==
    (Applied /\ Invalid(call.pre, call.input)) =>
        /\ call.result = "panic"
        /\ Self = call.pre

\* A rejected apply on a non-empty list: a two-entry input whose heights
\* are contiguous and whose first entry attaches, but whose hashes are not
\* chained.
C2_Witness ==
    /\ Applied
    /\ Len(call.pre.headers) > 0
    /\ Len(call.input) = 2
    /\ call.input[2].height = call.input[1].height + 1
    /\ call.input[1].header.prev_blockhash
          = StoredBelow(call.pre, call.input[1].height)
    /\ call.input[2].header.prev_blockhash # call.input[1].hash
    /\ call.result = "panic"

\* C5 (linkage): each stored header names the hash stored below it, and the
\* header at height 0 names the null hash.
C5_Linkage ==
    /\ \A i \in 1..(Len(headers) - 1) :
          headers[i + 1].header.prev_blockhash = headers[i].hash
    /\ Len(headers) > 0 => headers[1].header.prev_blockhash = NullHash

\* A reorganization has just completed on a chain that is still three long.
C5_Witness ==
    /\ Applied
    /\ call.result = "ok"
    /\ call.input # <<>>
    /\ call.input[1].height < Len(call.pre.headers)
    /\ Len(headers) >= 3

\* C6 (heights): the entry at position i has height i, so the assertion of
\* header_by_height holds at every height.
C6_Heights ==
    /\ \A i \in 1..Len(headers) : headers[i].height = i - 1
    /\ \A height \in 0..(MaxHeight + 1) :
          header_by_height_asserts(Self, height)

\* An extension by two entries has just completed.
C6_Witness ==
    /\ Applied
    /\ call.result = "ok"
    /\ Len(call.input) = 2
    /\ call.input[1].height = Len(call.pre.headers)
    /\ Len(call.pre.headers) > 0

\* C7 (tip): tip is the hash of the last stored header, or the null hash
\* when the chain is empty: the assertion of tip() holds.
C7_Tip ==
    /\ tip_asserts(Self)
    /\ tip = (IF headers = <<>> THEN NullHash ELSE headers[Len(headers)].hash)

\* A reorganization has just made the chain shorter.
C7_Witness ==
    /\ Applied
    /\ call.result = "ok"
    /\ call.input # <<>>
    /\ Len(headers) < Len(call.pre.headers)
    /\ tip # call.pre.tip

\* C8 as claimed: the keys of the map are exactly the hashes of the stored
\* entries, each mapped to its entry's height.
C8_MapBijection ==
    /\ DOMAIN heights = HashesOf(headers)
    /\ \A i \in 1..Len(headers) : heights[headers[i].hash] = i - 1

\* C8 (amended): every stored entry's hash is a key of the map and is mapped
\* to that entry's height, no two stored entries share a hash; a key whose
\* entry was discarded may remain, and the lookup by hash answers none
\* for it.
C8_MapCoversChain ==
    /\ \A i \in 1..Len(headers) :
          /\ headers[i].hash \in DOMAIN heights
          /\ heights[headers[i].hash] = i - 1
    /\ \A i, j \in 1..Len(headers) :
          headers[i].hash = headers[j].hash => i = j
    /\ \A h \in (DOMAIN heights) \ HashesOf(headers) :
          ~header_by_blockhash(Self, h).some

\* A reorganization has left a key in the map whose entry is gone.
C8_Witness ==
    /\ Applied
    /\ call.result = "ok"
    /\ Len(headers) >= 2
    /\ (DOMAIN heights) \ HashesOf(headers) # {}

\* The header of the universe that hashes to h.
HeaderOf(h) == CHOOSE hd \in BlockHeader : bitcoin_hash(hd) = h

\* The headers from the one whose predecessor is null up to the one that
\* hashes to h, in chain order.
RECURSIVE ChainTo(_)
ChainTo(h) ==
    IF h = NullHash THEN <<>>
    ELSE Append(ChainTo(HeaderOf(h).prev_blockhash), HeaderOf(h))

\* The map holds the whole chain that ends at tip_hash.
HoldsChain(headers_map, tip_hash) ==
    \A i \in 1..Len(ChainTo(tip_hash)) :
        LET k == bitcoin_hash(ChainTo(tip_hash)[i])
        IN  k \in DOMAIN headers_map /\ headers_map[k] = ChainTo(tip_hash)[i]

Constructed == call.op = "new"

\* C9 (construction): when the map holds the chain of N headers that ends at
\* tip_hash, new yields exactly those N entries in chain order, the entry at
\* position i with height i; the lookups by hash and by height of every
\* entry return that entry, and no other header of the map is in the chain.
C9_Construction ==
    (Constructed /\ HoldsChain(call.input.headers_map, call.input.tip_hash)) =>
        LET chain == ChainTo(call.input.tip_hash)
        IN  /\ call.result = "ok"
            /\ Len(headers) = Len(chain)
            /\ \A i \in 1..Len(chain) :
                  /\ headers[i] = HeaderEntry(i - 1, chain[i])
                  /\ header_by_blockhash(Self, headers[i].hash)
                        = Some(headers[i])
                  /\ header_by_height(Self, headers[i].height)
                        = Some(headers[i])
            /\ \A k \in DOMAIN call.input.headers_map :
                  k \notin HashesOf(headers) =>
                      ~header_by_blockhash(Self, k).some

\* A chain of three was built out of a map that holds two orphans as well.
C9_Witness ==
    /\ Constructed
    /\ HoldsChain(call.input.headers_map, call.input.tip_hash)
    /\ Len(ChainTo(call.input.tip_hash)) = 3
    /\ Cardinality(DOMAIN call.input.headers_map) >= 5
    /\ Len(headers) = 3

\* The current tip's entry, as order makes it from the tip's header.
TipEntry(self) == order(self, <<self.headers[Len(self.headers)].header>>)

\* The call that has just completed applied the entry of the tip.
ReappliedTip ==
    /\ Applied
    /\ call.pre.headers # <<>>
    /\ TipEntry(call.pre).result = "ok"
    /\ call.input = TipEntry(call.pre).value

\* C10 (idempotent re-apply): applying the entry of the current tip changes
\* neither the headers, nor the tip, nor the answer of any lookup.
C10_ReapplyTip ==
    (Applied /\ call.pre.headers # <<>>) =>
        /\ TipEntry(call.pre).result = "ok"
        /\ (call.input = TipEntry(call.pre).value =>
              /\ call.result = "ok"
              /\ headers = call.pre.headers
              /\ tip = call.pre.tip
              /\ \A h \in 0..MaxHash :
                    header_by_blockhash(Self, h)
                      = header_by_blockhash(call.pre, h)
              /\ \A height \in 0..(MaxHeight + 1) :
                    header_by_height(Self, height)
                      = header_by_height(call.pre, height))

\* The tip of a chain of two or more entries was applied again, in a list
\* whose map still holds a discarded hash.
C10_Witness ==
    /\ ReappliedTip
    /\ Len(call.pre.headers) >= 2
    /\ (DOMAIN call.pre.heights) \ HashesOf(call.pre.headers) # {}

(***************************************************************************)
(* Properties of the lookup by hash and of order.                          *)
(***************************************************************************)
\* The position (from 1) of the stored entry with hash h, 0 when none has it.
PositionOf(hs, h) ==
    IF h \in HashesOf(hs) THEN CHOOSE i \in 1..Len(hs) : hs[i].hash = h
    ELSE 0

\* The keys of the map whose entries were discarded.
StaleKeys == (DOMAIN heights) \ HashesOf(headers)

\* C11 (lookup by hash is exact): header_by_blockhash(h) returns an entry
\* exactly when h is the hash of a stored entry; the entry it returns has
\* hash h and is the one stored at its own height; for a key left in the map
\* by a truncation it returns none.
C11_LookupExact ==
    \A h \in 0..MaxHash :
        LET found == header_by_blockhash(Self, h)
        IN  /\ found.some <=> h \in HashesOf(headers)
            /\ found.some =>
                  /\ found.value.hash = h
                  /\ found.value = headers[PositionOf(headers, h)]
                  /\ found.value.height = PositionOf(headers, h) - 1
            /\ h \in StaleKeys => ~found.some

\* After a reorganization the map holds one stale key whose height now holds
\* another entry and one whose height is past the end.
C11_Witness ==
    /\ Applied
    /\ call.result = "ok"
    /\ \E h \in StaleKeys : heights[h] < Len(headers)
    /\ \E h \in StaleKeys : heights[h] >= Len(headers)

Ordering == call.op = "order"

\* Each header of the run names the hash of the header before it.
LinkedRun(run) ==
    \A i \in 1..(Len(run) - 1) :
        run[i + 1].prev_blockhash = bitcoin_hash(run[i])

\* The height order is to start from: 0 under the null hash, one more than
\* the height at which the chain stores the hash otherwise; -1 when the
\* chain does not store it.
StartHeight(hs, prev_blockhash) ==
    IF prev_blockhash = NullHash THEN 0
    ELSE IF PositionOf(hs, prev_blockhash) = 0 THEN -1
    ELSE PositionOf(hs, prev_blockhash)

\* C20 (order): for a non-empty linked run order returns one entry per
\* header, in input order, with consecutive heights from 0 when the first
\* header's previous hash is null and from the height of that hash in the
\* chain plus one otherwise; it fails when the chain does not hold that hash
\* (a discarded hash included) or when the run is not linked; an empty run
\* gives an empty result; the index is left as it was.
C20_Order ==
    Ordering =>
        LET run == call.input
            start == StartHeight(headers, run[1].prev_blockhash)
        IN  /\ Self = call.pre
            /\ run = <<>> => call.result = "ok" /\ call.value = <<>>
            /\ ~LinkedRun(run) => call.result = "panic"
            /\ (run # <<>> /\ LinkedRun(run) /\ start = -1) =>
                  call.result = "panic"
            /\ (run # <<>> /\ LinkedRun(run) /\ start >= 0) =>
                  /\ call.result = "ok"
                  /\ Len(call.value) = Len(run)
                  /\ \A i \in 1..Len(run) :
                        /\ call.value[i].header = run[i]
                        /\ call.value[i].hash = bitcoin_hash(run[i])
                        /\ call.value[i].height = start + (i - 1)

\* order gave a run of two headers the heights 1 and 2, in a list whose map
\* holds a discarded hash.
C20_Witness ==
    /\ Ordering
    /\ call.result = "ok"
    /\ Len(call.value) = 2
    /\ call.value[1].height = 1
    /\ StaleKeys # {}

\* order refused a run that builds on a hash a reorganization discarded.
C20_WitnessStale ==
    /\ Ordering
    /\ call.input # <<>>
    /\ call.input[1].prev_blockhash \in StaleKeys
    /\ call.result = "panic"

\* The hashes on the way back from h to the null hash, h included.
RECURSIVE Ancestry(_)
Ancestry(h) ==
    IF h = NullHash THEN {} ELSE {h} \cup Ancestry(HeaderOf(h).prev_blockhash)

\* The walk back from tip_hash meets a hash that the map does not hold.
MissingAncestor(headers_map, tip_hash) ==
    \E h \in Ancestry(tip_hash) : h \notin DOMAIN headers_map

\* C16 (construction failure): when the walk back from tip_hash meets a
\* non-null hash that the map lacks, new fails (the expect of line 103
\* panics, which unwinds into the caller) and no list, partial or truncated,
\* comes out of it.
C16_ConstructionFailure ==
    (Constructed /\ MissingAncestor(call.input.headers_map,
                                    call.input.tip_hash)) =>
        /\ call.result = "panic"
        /\ Self = call.pre

\* new failed on a map that holds the tip and its parent but not the
\* grandparent.
C16_Witness ==
    /\ Constructed
    /\ call.result = "panic"
    /\ Cardinality(Ancestry(call.input.tip_hash)) = 3
    /\ Cardinality(Ancestry(call.input.tip_hash)
                      \cap DOMAIN call.input.headers_map) = 2
    /\ call.input.tip_hash \in DOMAIN call.input.headers_map
    /\ HeaderOf(call.input.tip_hash).prev_blockhash
          \in DOMAIN call.input.headers_map

(***************************************************************************)
(* The classification of a request's input (multi.rs, lines 13-33).  A     *)
(* string is the sequence of its characters.                               *)
(***************************************************************************)
MULTIADDR_SEPARATOR == <<"%", "7", "C">>

XPUB_PREFIX == <<"x", "p", "u", "b">>

\* str::starts_with.
starts_with(input, pat) ==
    Len(input) >= Len(pat) /\ SubSeq(input, 1, Len(pat)) = pat

\* pat is read in input from position i on.
matches_at(input, pat, i) ==
    /\ i + Len(pat) - 1 <= Len(input)
    /\ SubSeq(input, i, i + Len(pat) - 1) = pat

\* The position of the leftmost match of pat in input, 0 when there is none.
find(input, pat) ==
    IF \E i \in 1..Len(input) : matches_at(input, pat, i)
    THEN CHOOSE i \in 1..Len(input) :
            /\ matches_at(input, pat, i)
            /\ \A j \in 1..(i - 1) : ~matches_at(input, pat, j)
    ELSE 0

\* str::contains.
contains(input, pat) == find(input, pat) # 0

\* Mutant: the input is cut at the first match only.
split_once(input, pat) ==
    LET at == find(input, pat)
    IN  IF at = 0 THEN <<input>>
        ELSE <<SubSeq(input, 1, at - 1),
               SubSeq(input, at + Len(pat), Len(input))>>

\* str::split(..).collect(): the pieces between the matches of pat, taken
\* from the left, one after the other; an empty piece is a piece.
RECURSIVE split(_, _)
split(input, pat) ==
    LET at == find(input, pat)
    IN  IF at = 0 THEN <<input>>
        ELSE <<SubSeq(input, 1, at - 1)>>
               \o split(SubSeq(input, at + Len(pat), Len(input)), pat)

\* The pair that xpub_multi_or_single returns.
Classified(addresses, xpub) == [addresses |-> addresses, xpub |-> xpub]

\* Mutant: the separator is looked for before the prefix.
xpub_multi_or_single_separator_first(input) ==
    IF contains(input, MULTIADDR_SEPARATOR)
    THEN Classified(split(input, MULTIADDR_SEPARATOR), FALSE)
    ELSE IF starts_with(input, XPUB_PREFIX) THEN Classified(<<>>, TRUE)
    ELSE Classified(<<input>>, FALSE)

\* Lines 17-33.
xpub_multi_or_single(input) ==
    IF starts_with(input, XPUB_PREFIX) THEN Classified(<<>>, TRUE)
    ELSE IF contains(input, MULTIADDR_SEPARATOR)
    THEN Classified(split(input, MULTIADDR_SEPARATOR), FALSE)
    ELSE Classified(<<input>>, FALSE)

\* Three addresses, joined by the character | and by the separator token.
Addr1 == <<"1", "A", "x", "x">>
Addr2 == <<"1", "B", "x", "x">>
Addr3 == <<"1", "C", "x", "x">>
Piped == Addr1 \o <<"|">> \o Addr2 \o <<"|">> \o Addr3
Encoded == Addr1 \o MULTIADDR_SEPARATOR \o Addr2 \o MULTIADDR_SEPARATOR \o Addr3

\* The inputs of a request: the two examples, and what up to MaxPieces
\* pieces make, the pieces being the prefix, the separator and parts of them.
Pieces ==
    { XPUB_PREFIX, MULTIADDR_SEPARATOR, <<"%", "7">>, <<"C">>, <<"x", "p">>,
      <<"1", "A">>, <<"|">> }

RECURSIVE Concat(_)
Concat(pieces) ==
    IF pieces = <<>> THEN <<>> ELSE Head(pieces) \o Concat(Tail(pieces))

Inputs ==
    {Piped, Encoded}
      \cup { Concat(ps) : ps \in UNION { [1..n -> Pieces] : n \in 0..MaxPieces } }

ClassifyInit ==
    /\ ListInit
    /\ scan = NoScan

\* A request comes in with its input, and is classified.
Classify(input) ==
    /\ LET out == xpub_multi_or_single(input)
       IN  call' = [op |-> "classify", input |-> input, result |-> "ok",
                    pre |-> Self, addresses |-> out.addresses,
                    xpub |-> out.xpub]
    /\ UNCHANGED <<headers, heights, tip, writer, readers, obs, scan>>

ClassifyNext ==
    \/ Idle /\ \E input \in Inputs : Classify(input)
    \/ Return

ClassifySpec == ClassifyInit /\ [][ClassifyNext]_vars

Classifying == call.op = "classify"

\* The positions of input at which the separator is read.
SeparatorsIn(input) ==
    { i \in 1..Len(input) : matches_at(input, MULTIADDR_SEPARATOR, i) }

\* The strings of a list with the separator put between them.
RECURSIVE Joined(_)
Joined(list) ==
    IF Len(list) <= 1 THEN Concat(list)
    ELSE Head(list) \o MULTIADDR_SEPARATOR \o Joined(Tail(list))

\* C12 (input classification): an input that begins with the xpub prefix
\* gives the empty list and the flag true, separators or not; otherwise an
\* input with k >= 1 separators gives the flag false and the k+1 substrings
\* between the separators in their order; otherwise the flag is false and
\* the list holds the whole input and nothing else.
C12_Classification ==
    Classifying =>
        LET input == call.input
            k == Cardinality(SeparatorsIn(input))
        IN  IF starts_with(input, XPUB_PREFIX)
            THEN call.addresses = <<>> /\ call.xpub
            ELSE IF k >= 1
            THEN /\ ~call.xpub
                 /\ Len(call.addresses) = k + 1
                 /\ Joined(call.addresses) = input
                 /\ \A i \in 1..Len(call.addresses) :
                       SeparatorsIn(call.addresses[i]) = {}
            ELSE ~call.xpub /\ call.addresses = <<input>>

\* An input with the prefix and a separator after it was classified.
C12_Witness ==
    /\ Classifying
    /\ starts_with(call.input, XPUB_PREFIX)
    /\ SeparatorsIn(call.input) # {}
    /\ call.xpub

\* An input with two separators, one of them at its end, gave three strings.
C12_WitnessSplit ==
    /\ Classifying
    /\ ~call.xpub
    /\ Cardinality(SeparatorsIn(call.input)) = 2
    /\ Len(call.addresses) = 3
    /\ call.addresses[3] = <<>>

\* C13 (multi-address parsing), as claimed: the three addresses joined by
\* the character | are classified as the list of the three, flag false.
C13_Piped ==
    (Classifying /\ call.input = Piped) =>
        call.addresses = <<Addr1, Addr2, Addr3>> /\ ~call.xpub

\* C13, amended: the three addresses joined by the separator token %7C are
\* classified as the list of the three in their order, flag false; joined
\* by the character | they are one string, which is returned whole.
C13_Encoded ==
    Classifying =>
        /\ call.input = Encoded =>
              call.addresses = <<Addr1, Addr2, Addr3>> /\ ~call.xpub
        /\ call.input = Piped =>
              call.addresses = <<Piped>> /\ ~call.xpub

C13_Witness ==
    /\ Classifying
    /\ call.input = Encoded
    /\ Len(call.addresses) = 3

(***************************************************************************)
(* Properties of the request handlers.                                     *)
(***************************************************************************)
\* The literal batch is being collected, or has been.
Collecting == scan.pc \in {"collect", "returned"} /\ scan.path = "multi"

\* The addresses of the batch that collect has drawn so far.
Drawn == SubSeq(scan.input, 1, Len(scan.input) - Len(scan.addresses))

\* Those of a list of literal addresses that are addresses.
Converting(addresses) ==
    LET Good(addr) == addr \in WellFormed
    IN  SelectSeq(addresses, Good)

\* C14 (drop on error): the output of the literal batch holds one
\* AddressInfo for each input address whose conversion succeeds, in the
\* input's order, and none for the others; the stats query and the callback
\* are made for those addresses and no other; the batch is not returned
\* before every address has been drawn, whatever fails.
C14_DropOnError ==
    Collecting =>
        /\ AddressesOf(scan.result) = Converting(Drawn)
        /\ scan.queried = Converting(Drawn)
        /\ scan.called = Converting(Drawn)
        /\ scan.pc = "returned" => Drawn = scan.input

\* A batch with a malformed address between two well-formed ones was
\* returned with the two.
C14_Witness ==
    /\ Collecting
    /\ scan.pc = "returned"
    /\ Len(scan.input) = 3
    /\ scan.input[1] \in WellFormed
    /\ scan.input[2] \in Malformed
    /\ scan.input[3] \in WellFormed
    /\ Len(scan.result) = 2

\* A request of either path is under way or has returned.
Requested == scan.pc # "none"

\* C15 (aggregation shapes): in stats mode every AddressInfo has both stats
\* present, those of the stats query, and utxo, chain_txs and mempool_txs
\* empty; in utxo mode every AddressInfo has the queried unspent outputs as
\* its utxo, both stats absent and chain_txs and mempool_txs empty; on the
\* literal path and on the xpub path alike.
C15_Shapes ==
    Requested =>
        \A i \in 1..Len(scan.result) :
            LET info == scan.result[i]
                hash == scripthash(info.address)
            IN  /\ scan.mode = "stats" =>
                      /\ info.chain_stats
                           = Some(query_stats(scan.used, hash)[1])
                      /\ info.mempool_stats
                           = Some(query_stats(scan.used, hash)[2])
                      /\ info.utxo = <<>>
                      /\ info.chain_txs = <<>>
                      /\ info.mempool_txs = <<>>
                /\ scan.mode = "utxo" =>
                      /\ info.utxo = query_utxo(scan.unspent, hash)
                      /\ ~info.chain_stats.some
                      /\ ~info.mempool_stats.some
                      /\ info.chain_txs = <<>>
                      /\ info.mempool_txs = <<>>

\* A scan in stats mode returned the records of three used addresses.
C15_Witness ==
    /\ Returned
    /\ scan.mode = "stats"
    /\ Len(scan.result) >= 3
    /\ scan.result[1].chain_stats.some

\* A literal batch in utxo mode returned a record with an unspent output.
C15_WitnessUtxo ==
    /\ Collecting
    /\ scan.pc = "returned"
    /\ scan.mode = "utxo"
    /\ \E i \in 1..Len(scan.result) : scan.result[i].utxo # <<>>

\* Every GapLimit indices in a row, of the pages that may be derived, hold
\* an index in use.
EveryWindowUsed(used) ==
    \A i \in Horizon :
        (i + GapLimit - 1) \in Horizon =>
            \E j \in i..(i + GapLimit - 1) : j \in used

\* C17 (scan termination), as claimed: the scan does not return when every
\* window of 20 consecutive indices holds a used index.
C17_Termination == Returned => ~EveryWindowUsed(scan.used)

\* The indices of page p, as claimed.
FullPage(page) ==
    [i \in 1..DERIVE_SIZE |-> (page - 1) * DERIVE_SIZE + (i - 1)]

IsSuffix(s, t) ==
    Len(s) <= Len(t) /\ s = SubSeq(t, Len(t) - Len(s) + 1, Len(t))

\* C18 (page coverage), as claimed: the batch of page p is the 100 indices
\* (p-1)*100 .. p*100-1 in ascending order, so that what the loop has still
\* to visit of it is always a tail of that page.
C18_PageCoverage ==
    scan.pc = "for" => IsSuffix(scan.addresses, FullPage(scan.page))

\* The scan of an xpub is under way or has returned.
Scanning == scan.pc # "none" /\ scan.path = "xpub"

\* The number of empty addresses at the end of the addresses visited.
RECURSIVE TrailingEmpty(_, _)
TrailingEmpty(used, visited) ==
    IF visited = <<>> \/ visited[Len(visited)] \in used THEN 0
    ELSE 1 + TrailingEmpty(used, SubSeq(visited, 1, Len(visited) - 1))

\* C19 (stop moment): the counter is the number of empty addresses visited
\* since the last used one, pages apart or not; it never exceeds 20; the
\* scan stops at the address where it reaches 20, so that no address is
\* queried after that one; the callback is called once for each used
\* address visited, in order, and for no empty one.
C19_StopMoment ==
    Scanning =>
        /\ scan.empty_count = TrailingEmpty(scan.used, scan.queried)
        /\ scan.empty_count <= GapLimit
        /\ scan.queried # <<>> =>
              TrailingEmpty(scan.used,
                            SubSeq(scan.queried, 1, Len(scan.queried) - 1))
                < GapLimit
        /\ scan.done <=> scan.empty_count = GapLimit
        /\ Returned => scan.done
        /\ LET Used(addr) == addr \in scan.used
           IN  scan.called = SelectSeq(scan.queried, Used)
        /\ AddressesOf(scan.result) = scan.called

\* The scan came to the end of the first page with 19 empty addresses
\* counted, and stopped at the first address of the second page, the rest of
\* which was not visited.
C19_Witness ==
    /\ Returned
    /\ scan.empty_count = GapLimit
    /\ scan.queried[Len(scan.queried)] = DERIVE_SIZE
    /\ scan.addresses # <<>>
    /\ Len(scan.called) >= 4

\* C21 (order's output is applicable): in every state reached by calls of
\* order, apply and new, when order succeeds on a run then apply of what it
\* returned, on the index as it stands, passes every check of apply: the
\* heights are contiguous, the hashes chain, the first entry's previous hash
\* is the hash stored at its height minus one, and every entry is pushed at
\* the height that is the list's length; so apply(order(run)) fails in order
\* or not at all.
C21_OrderApplicable ==
    (Ordering /\ call.result = "ok") =>
        LET out == apply(Self, call.value)
        IN  /\ apply_validate(Self, call.value) # "panic"
            /\ out.result = "ok"
            /\ call.value # <<>> =>
                  /\ out.self.tip = call.value[Len(call.value)].hash
                  /\ Len(out.self.headers)
                        = call.value[1].height + Len(call.value)

\* order succeeded on a run of two headers that forks off below the tip of a
\* list of two, so that apply of its entries is a reorganization.
C21_Witness ==
    /\ Ordering
    /\ call.result = "ok"
    /\ Len(call.value) = 2
    /\ call.value[1].height = 1
    /\ Len(headers) = 2
    /\ call.value[1].hash \notin HashesOf(headers)

====
